---- MODULE Spec2Model ----
(***************************************************************************)
(* Expectation store of the coaching configuration tool: the rows of the   *)
(* sheet tbl_coaching_expectations, the server functions that mutate it    *)
(* (addNewExpectation, updateExpectationData, setExpectationStatus) and    *)
(* the checks they rely on (validateExpectation, checkForOverlap); then    *)
(* the user administration (addNewUser, editUser, removeUser), the script  *)
(* lock wrapper _withLock and the form graph of getFormData/generateJSON.  *)
(*                                                                         *)
(* Dates are whole days on one calendar, written as integers; the two      *)
(* literals of validateExpectation are the days MinDate and MaxDate.       *)
(* A value that `new Date` cannot parse is the day NaD, and every          *)
(* comparison with it is false, as with JavaScript's Invalid Date.         *)
(* A number-valued field of a candidate is a record [k, v]: k is what the  *)
(* caller passed ("number", "NaN" or "string"), v its numeric value.       *)
(***************************************************************************)
EXTENDS Integers, Sequences, FiniteSets, TLC

VARIABLES sheet, emID, last, proc, users, activeUser, lock, workbook, page

vars == <<sheet, emID, last, proc, users, activeUser, lock, workbook, page>>

(* what no expectation handler reads or writes: the script property 'users', the
   email of the session's user, the script lock, the form sheets, and the page
   in the user's browser *)
outside == <<users, activeUser, lock, workbook, page>>

(* ---------------------------------------------------------------- bounds *)
MaxRows == 2
MaxForms == 2
MaxQuestions == 2

(* ------------------------------------------------------------- constants *)
MinDate == 1
MaxDate == 3
NaD == -1
NoEmID == 0
UserEmID == 7
NoConflict == -1
NoIgnoreId == -1
FirstDataRow == 3

Today == "today"
BlankDate == ""

NoEmail == ""
NoLock == 0

(* ------------------------------------------------------------ JS values  *)
Num(n) == [k |-> "number", v |-> n]
Str(n) == [k |-> "string", v |-> n]

TypeOf(x) == IF x.k \in {"number", "NaN"} THEN "number" ELSE x.k

GE0(x) == x.k # "NaN" /\ x.v >= 0

DateGE(a, b) == a # NaD /\ b # NaD /\ a >= b

DateLE(a, b) == a # NaD /\ b # NaD /\ a <= b

(* ------------------------------------------------------------ candidates *)
Cand(r, t, s, e, a, p, o, b) ==
    [resourceId |-> r, performance |-> p, oneToOne |-> o, sideBySide |-> b,
     startDate |-> s, endDate |-> e, expectationType |-> t, active |-> a]

Plain(r, t, s, e, a) == Cand(r, t, s, e, a, Num(0), Num(1), Num(0))

(* candidates of one resource and type whose windows are adjacent ([1,1] and [2,3]),
   share a boundary day ([2,2] and [2,3]) or contain one another ([1,3] and [2,2]),
   a candidate of another type, and candidates the validator rejects *)
AddCands ==
    {Plain(1, "Agent", MinDate, MinDate, TRUE),
     Plain(1, "Agent", MinDate + 1, MaxDate, TRUE),
     Plain(1, "Agent", MinDate, MaxDate, FALSE),
     Plain(1, "Workgroup", MinDate, MaxDate, TRUE),
     Cand(1, "Agent", MaxDate, MaxDate, TRUE, Num(-1), Num(1), Num(0))}

UpdateCands ==
    {Plain(1, "Agent", MinDate, MaxDate, TRUE),
     Cand(1, "Agent", MinDate + 1, MinDate + 1, TRUE, Num(2), Num(0), Num(3)),
     Plain(1, "Agent", MaxDate, MinDate, TRUE)}

(* ------------------------------------------------------------------ rows *)
Row(id, c, cb, cd, mb, md) ==
    [id |-> id, resourceId |-> c.resourceId, performance |-> c.performance,
     oneToOne |-> c.oneToOne, sideBySide |-> c.sideBySide,
     startDate |-> c.startDate, endDate |-> c.endDate,
     expectationType |-> c.expectationType, active |-> c.active,
     createdBy |-> cb, createdDate |-> cd, modifiedBy |-> mb, modifiedDate |-> md]

NewRow(id, c) == Row(id, c, NoEmID, BlankDate, NoEmID, BlankDate)

HeaderRow ==
    [id |-> 0, resourceId |-> 0, performance |-> Str(0), oneToOne |-> Str(0),
     sideBySide |-> Str(0), startDate |-> NaD, endDate |-> NaD,
     expectationType |-> "Expectation Type", active |-> FALSE,
     createdBy |-> NoEmID, createdDate |-> BlankDate,
     modifiedBy |-> NoEmID, modifiedDate |-> BlankDate]

Ids(data) == {data[i].id : i \in DOMAIN data}

(* sheet.getRange(3, 1, sheet.getLastRow() - 2, ...) asks for no row at all when the
   sheet holds only its two header rows, and the spreadsheet service throws *)
RangeThrows(data) == Len(data) = 0

(* idColumn.findIndex(...) + 3: the sheet row of the first match, 2 when none *)
FindRow(data, expectationId) ==
    LET hits == {i \in DOMAIN data : data[i].id = expectationId}
    IN  IF hits = {} THEN FirstDataRow - 1
        ELSE (CHOOSE i \in hits : \A j \in hits : i <= j) + FirstDataRow - 1

RowAt(data, rowNumber) ==
    IF rowNumber >= FirstDataRow THEN data[rowNumber - FirstDataRow + 1] ELSE HeaderRow

(* ------------------------------------------------------------- validator *)
(* the validator without its sideBySide test *)
validateExpectationNoSideBySide(expectation) ==
    /\ TypeOf(expectation.performance) = "number" /\ GE0(expectation.performance)
    /\ TypeOf(expectation.oneToOne) = "number" /\ GE0(expectation.oneToOne)
    /\ DateGE(expectation.startDate, MinDate)
    /\ DateLE(expectation.endDate, MaxDate)
    /\ DateGE(expectation.endDate, expectation.startDate)

validateExpectation(expectation) ==
    /\ TypeOf(expectation.performance) = "number" /\ GE0(expectation.performance)
    /\ TypeOf(expectation.oneToOne) = "number" /\ GE0(expectation.oneToOne)
    /\ TypeOf(expectation.sideBySide) = "number" /\ GE0(expectation.sideBySide)
    /\ DateGE(expectation.startDate, MinDate)
    /\ DateLE(expectation.endDate, MaxDate)
    /\ DateGE(expectation.endDate, expectation.startDate)

(* ------------------------------------------------------ overlap detector *)
(* the row test with strict comparisons: a shared boundary day goes unnoticed *)
RowConflictsExclusive(row, resourceId, expectationType, newStartDate, newEndDate, newIgnoreId) ==
    /\ row.active
    /\ row.resourceId = resourceId
    /\ row.expectationType = expectationType
    /\ row.id # newIgnoreId
    /\ \/ newStartDate > row.startDate /\ newStartDate < row.endDate
       \/ newEndDate > row.startDate /\ newEndDate < row.endDate
       \/ newStartDate < row.startDate /\ newEndDate > row.endDate

(* the row test without its third case: a window containing the row's goes unnoticed *)
RowConflictsNoContainment(row, resourceId, expectationType, newStartDate, newEndDate, newIgnoreId) ==
    /\ row.active
    /\ row.resourceId = resourceId
    /\ row.expectationType = expectationType
    /\ row.id # newIgnoreId
    /\ \/ DateGE(newStartDate, row.startDate) /\ DateLE(newStartDate, row.endDate)
       \/ DateGE(newEndDate, row.startDate) /\ DateLE(newEndDate, row.endDate)

RowConflicts(row, resourceId, expectationType, newStartDate, newEndDate, newIgnoreId) ==
    /\ row.active
    /\ row.resourceId = resourceId
    /\ row.expectationType = expectationType
    /\ row.id # newIgnoreId
    /\ \/ DateGE(newStartDate, row.startDate) /\ DateLE(newStartDate, row.endDate)
       \/ DateGE(newEndDate, row.startDate) /\ DateLE(newEndDate, row.endDate)
       \/ DateLE(newStartDate, row.startDate) /\ DateGE(newEndDate, row.endDate)

RECURSIVE ScanFrom(_, _, _, _, _, _, _)
ScanFrom(data, i, resourceId, expectationType, startDate, endDate, ignoreId) ==
    IF i > Len(data) THEN NoConflict
    ELSE IF RowConflicts(data[i], resourceId, expectationType, startDate, endDate, ignoreId)
         THEN data[i].id
         ELSE ScanFrom(data, i + 1, resourceId, expectationType, startDate, endDate, ignoreId)

checkForOverlap(data, resourceId, expectationType, startDate, endDate, ignoreId) ==
    ScanFrom(data, 1, resourceId, expectationType, startDate, endDate, ignoreId)

(* ---------------------------------------------------------- audit stamps *)
SetCell(row, column, value) ==
    CASE column = 9  -> [row EXCEPT !.active = value]
      [] column = 10 -> [row EXCEPT !.createdBy = value]
      [] column = 11 -> [row EXCEPT !.createdDate = value]
      [] column = 12 -> [row EXCEPT !.modifiedBy = value]
      [] column = 13 -> [row EXCEPT !.modifiedDate = value]

SetValue(data, rowNumber, column, value) ==
    [data EXCEPT ![rowNumber - FirstDataRow + 1] = SetCell(@, column, value)]

(* getUserEmID throws when the caller has no employee id; the callers do not await
   updateModifiedBy, so the rejection is lost and no cell is written *)
updateModifiedBy(data, rowToEdit, emIdColumn, dateColumn, em) ==
    IF em = NoEmID THEN data
    ELSE SetValue(SetValue(data, rowToEdit, emIdColumn, em), rowToEdit, dateColumn, Today)

(* the same write started one column to the left: the candidate's first value
   lands in the id cell *)
SetRowValuesFromIdColumn(data, rowNumber, c) ==
    [data EXCEPT ![rowNumber - FirstDataRow + 1] =
        Row(c.resourceId, c, @.createdBy, @.createdDate, @.modifiedBy, @.modifiedDate)]

(* setValues([updatedRow]) on columns 2..9 of the row *)
SetRowValues(data, rowNumber, c) ==
    [data EXCEPT ![rowNumber - FirstDataRow + 1] =
        Row(@.id, c, @.createdBy, @.createdDate, @.modifiedBy, @.modifiedDate)]

(* ------------------------------------------------------ recorded outcome *)
NoCand == Plain(0, "", NaD, NaD, FALSE)

Outcome(op, id, c, isActive, status, result) ==
    [op |-> op, id |-> id, cand |-> c, isActive |-> isActive,
     status |-> status, result |-> result]

Idle == [pc |-> "idle", op |-> "none", id |-> 0, cand |-> NoCand, isActive |-> FALSE,
         rowToEdit |-> 0, newId |-> 0, status |-> "none", result |-> 0]

Procs == {1, 2}

(* --------------------------------------------------------- initial state *)
(* no user stored, no session email, the lock free and no form sheet read *)
OutsideAtRest ==
    /\ users = <<>>
    /\ activeUser = NoEmail
    /\ lock = NoLock
    /\ workbook = <<>>
    /\ page = <<>>

InitSheets ==
    {<<>>}
    \cup {<<NewRow(1, c)>> : c \in {c \in AddCands : c.performance = Num(0)}}
    \cup {<<NewRow(2, Plain(1, "Agent", MinDate, MinDate, TRUE))>>}

Init ==
    /\ OutsideAtRest
    /\ sheet \in InitSheets
    /\ emID \in {NoEmID, UserEmID}
    /\ last = Outcome("none", 0, NoCand, FALSE, "none", 0)
    /\ proc = [p \in Procs |-> Idle]

(* ------------------------------------------- the handlers, one call each *)
(* an update that passes no ignoreId *)
UpdateIgnoresNothing(expectationId) == NoIgnoreId

(* the id the update passes to the overlap check as ignoreId *)
UpdateIgnoreId(expectationId) == expectationId

(* setExpectationStatus passes no ignoreId: the parameter takes its default *)
StatusIgnoreId(expectationId) == NoIgnoreId

(* a status change that checks for an overlap whatever the new status *)
StatusAlwaysChecks(isActive) == TRUE

(* setExpectationStatus checks for an overlap only if (isActive) *)
StatusChecksOverlap(isActive) == isActive

NextId(data) == (CHOOSE m \in (Ids(data)) : \A n \in (Ids(data)) : n <= m) + 1

(* an add that appends its row before it looks at the outcome of the overlap check *)
addNewExpectationWritesFirst(data, expectation, em) ==
    IF RangeThrows(data) THEN [status |-> "exception", result |-> 0, data |-> data]
    ELSE
    LET isValid == checkForOverlap(data, expectation.resourceId, expectation.expectationType,
                                   expectation.startDate, expectation.endDate, NoIgnoreId)
        newId == NextId(data)
        appended == Append(data, NewRow(newId, expectation))
        lastRow == Len(appended) + FirstDataRow - 1
    IN  IF isValid # NoConflict
        THEN [status |-> "conflict", result |-> isValid, data |-> appended]
        ELSE [status |-> "ok", result |-> newId,
              data |-> updateModifiedBy(appended, lastRow, 10, 11, em)]

addNewExpectationResult(data, expectation, em) ==
    IF RangeThrows(data) THEN [status |-> "exception", result |-> 0, data |-> data]
    ELSE
    LET isValid == checkForOverlap(data, expectation.resourceId, expectation.expectationType,
                                   expectation.startDate, expectation.endDate, NoIgnoreId)
        newId == NextId(data)
        appended == Append(data, NewRow(newId, expectation))
        lastRow == Len(appended) + FirstDataRow - 1
    IN  IF isValid # NoConflict
        THEN [status |-> "conflict", result |-> isValid, data |-> data]
        ELSE [status |-> "ok", result |-> newId,
              data |-> updateModifiedBy(appended, lastRow, 10, 11, em)]

updateExpectationDataResult(data, expectationId, expectation, em) ==
    IF ~ validateExpectation(expectation)
    THEN [status |-> "validation", result |-> 0, data |-> data]
    ELSE IF RangeThrows(data) THEN [status |-> "exception", result |-> 0, data |-> data]
    ELSE
    LET rowToEdit == FindRow(data, expectationId)
        isValid == checkForOverlap(data, expectation.resourceId, expectation.expectationType,
                                   expectation.startDate, expectation.endDate,
                                   UpdateIgnoreId(expectationId))
    IN  IF rowToEdit < FirstDataRow
        THEN [status |-> "notFound", result |-> 0, data |-> data]
        ELSE IF isValid # NoConflict
        THEN [status |-> "conflict", result |-> isValid, data |-> data]
        ELSE [status |-> "ok", result |-> 0,
              data |-> updateModifiedBy(SetRowValues(data, rowToEdit, expectation),
                                        rowToEdit, 12, 13, em)]

setExpectationStatusResult(data, expectationId, isActive, em) ==
    IF RangeThrows(data) THEN [status |-> "exception", result |-> 0, data |-> data]
    ELSE
    LET rowToEdit == FindRow(data, expectationId)
        expectationDetails == RowAt(data, rowToEdit)
        isValid == checkForOverlap(data, expectationDetails.resourceId,
                                   expectationDetails.expectationType,
                                   expectationDetails.startDate, expectationDetails.endDate,
                                   StatusIgnoreId(expectationId))
    IN  IF StatusChecksOverlap(isActive) /\ isValid # NoConflict
        THEN [status |-> "conflict", result |-> isValid, data |-> data]
        ELSE IF rowToEdit >= FirstDataRow
        THEN [status |-> "ok", result |-> 0,
              data |-> updateModifiedBy(SetValue(data, rowToEdit, 9, isActive),
                                        rowToEdit, 12, 13, em)]
        ELSE [status |-> "notFound", result |-> 0, data |-> data]

AddNewExpectation(expectation) ==
    LET r == addNewExpectationResult(sheet, expectation, emID)
    IN  /\ Len(r.data) <= MaxRows
        /\ sheet' = r.data
        /\ last' = Outcome("add", 0, expectation, expectation.active, r.status, r.result)
        /\ UNCHANGED <<emID, proc, outside>>

UpdateExpectationData(expectationId, expectation) ==
    LET r == updateExpectationDataResult(sheet, expectationId, expectation, emID)
    IN  /\ sheet' = r.data
        /\ last' = Outcome("update", expectationId, expectation, expectation.active,
                           r.status, r.result)
        /\ UNCHANGED <<emID, proc, outside>>

SetExpectationStatus(expectationId, isActive) ==
    LET r == setExpectationStatusResult(sheet, expectationId, isActive, emID)
    IN  /\ sheet' = r.data
        /\ last' = Outcome("setStatus", expectationId, NoCand, isActive, r.status, r.result)
        /\ UNCHANGED <<emID, proc, outside>>

Next ==
    \/ \E c \in AddCands : AddNewExpectation(c)
    \/ \E id \in (1..(MaxRows + 1)), c \in UpdateCands : UpdateExpectationData(id, c)
    \/ \E id \in (1..(MaxRows + 1)), a \in BOOLEAN : SetExpectationStatus(id, a)

Spec == Init /\ [][Next]_vars

(* ------------------------------------- two calls running at the same time *)
(* Each call from a client is its own execution of the script; nothing in the three
   handlers takes a lock, so two executions interleave between any two accesses to
   the spreadsheet.  Each process makes one call, one spreadsheet access per step. *)
Running(p, op, id, c, isActive, pc) ==
    [Idle EXCEPT !.pc = pc, !.op = op, !.id = id, !.cand = c, !.isActive = isActive]

Done(q, status, result) == [q EXCEPT !.pc = "done", !.status = status, !.result = result]

(* addNewExpectation up to the return of checkForOverlap *)
AddCheck(p, expectation) ==
    /\ proc[p].pc = "idle"
    /\ LET q == Running(p, "add", 0, expectation, expectation.active, "addIds")
           isValid == checkForOverlap(sheet, expectation.resourceId,
                                      expectation.expectationType, expectation.startDate,
                                      expectation.endDate, NoIgnoreId)
       IN  proc' = [proc EXCEPT ![p] =
                IF RangeThrows(sheet) THEN Done(q, "exception", 0)
                ELSE IF isValid # NoConflict THEN Done(q, "conflict", isValid)
                ELSE q]
    /\ UNCHANGED <<sheet, emID, last, outside>>

(* the read of the id column and Math.max(...) + 1 *)
AddReadIds(p) ==
    /\ proc[p].pc = "addIds"
    /\ proc' = [proc EXCEPT ![p].pc = "addAppend", ![p].newId = NextId(sheet)]
    /\ UNCHANGED <<sheet, emID, last, outside>>

(* sheet.appendRow(newRow) *)
AddAppend(p) ==
    /\ proc[p].pc = "addAppend"
    /\ sheet' = Append(sheet, NewRow(proc[p].newId, proc[p].cand))
    /\ proc' = [proc EXCEPT ![p].pc = "addStamp"]
    /\ UNCHANGED <<emID, last, outside>>

(* sheet.getLastRow() and the stamps of updateModifiedBy on that row *)
AddStamp(p) ==
    /\ proc[p].pc = "addStamp"
    /\ sheet' = updateModifiedBy(sheet, Len(sheet) + FirstDataRow - 1, 10, 11, emID)
    /\ proc' = [proc EXCEPT ![p] = Done(@, "ok", @.newId)]
    /\ UNCHANGED <<emID, last, outside>>

(* updateExpectationData up to the search of the id column *)
UpdateFind(p, expectationId, expectation) ==
    /\ proc[p].pc = "idle"
    /\ LET rowToEdit == FindRow(sheet, expectationId)
           q == [Running(p, "update", expectationId, expectation, expectation.active,
                         "updateCheck") EXCEPT !.rowToEdit = rowToEdit]
       IN  proc' = [proc EXCEPT ![p] =
                IF ~ validateExpectation(expectation) THEN Done(q, "validation", 0)
                ELSE IF RangeThrows(sheet) THEN Done(q, "exception", 0)
                ELSE IF rowToEdit < FirstDataRow THEN Done(q, "notFound", 0)
                ELSE q]
    /\ UNCHANGED <<sheet, emID, last, outside>>

UpdateCheck(p) ==
    /\ proc[p].pc = "updateCheck"
    /\ LET q == proc[p]
           isValid == checkForOverlap(sheet, q.cand.resourceId, q.cand.expectationType,
                                      q.cand.startDate, q.cand.endDate, UpdateIgnoreId(q.id))
       IN  proc' = [proc EXCEPT ![p] =
                IF isValid # NoConflict THEN Done(q, "conflict", isValid)
                ELSE [q EXCEPT !.pc = "updateWrite"]]
    /\ UNCHANGED <<sheet, emID, last, outside>>

(* setValues([updatedRow]) and the stamps of updateModifiedBy *)
UpdateWrite(p) ==
    /\ proc[p].pc = "updateWrite"
    /\ sheet' = updateModifiedBy(SetRowValues(sheet, proc[p].rowToEdit, proc[p].cand),
                                 proc[p].rowToEdit, 12, 13, emID)
    /\ proc' = [proc EXCEPT ![p] = Done(@, "ok", 0)]
    /\ UNCHANGED <<emID, last, outside>>

(* setExpectationStatus up to the search of the id column *)
StatusFind(p, expectationId, isActive) ==
    /\ proc[p].pc = "idle"
    /\ LET rowToEdit == FindRow(sheet, expectationId)
           q == [Running(p, "setStatus", expectationId, NoCand, isActive, "statusCheck")
                    EXCEPT !.rowToEdit = rowToEdit]
       IN  proc' = [proc EXCEPT ![p] =
                IF RangeThrows(sheet) THEN Done(q, "exception", 0)
                ELSE IF StatusChecksOverlap(isActive) THEN q
                ELSE IF rowToEdit >= FirstDataRow THEN [q EXCEPT !.pc = "statusWrite"]
                ELSE Done(q, "notFound", 0)]
    /\ UNCHANGED <<sheet, emID, last, outside>>

(* the read of the row's details and checkForOverlap *)
StatusCheck(p) ==
    /\ proc[p].pc = "statusCheck"
    /\ LET q == proc[p]
           expectationDetails == RowAt(sheet, q.rowToEdit)
           isValid == checkForOverlap(sheet, expectationDetails.resourceId,
                                      expectationDetails.expectationType,
                                      expectationDetails.startDate,
                                      expectationDetails.endDate, StatusIgnoreId(q.id))
       IN  proc' = [proc EXCEPT ![p] =
                IF isValid # NoConflict THEN Done(q, "conflict", isValid)
                ELSE IF q.rowToEdit >= FirstDataRow THEN [q EXCEPT !.pc = "statusWrite"]
                ELSE Done(q, "notFound", 0)]
    /\ UNCHANGED <<sheet, emID, last, outside>>

(* setValue(isActive) and the stamps of updateModifiedBy *)
StatusWrite(p) ==
    /\ proc[p].pc = "statusWrite"
    /\ sheet' = updateModifiedBy(SetValue(sheet, proc[p].rowToEdit, 9, proc[p].isActive),
                                 proc[p].rowToEdit, 12, 13, emID)
    /\ proc' = [proc EXCEPT ![p] = Done(@, "ok", 0)]
    /\ UNCHANGED <<emID, last, outside>>

NextConc ==
    \E p \in Procs :
        \/ \E c \in {c \in AddCands : validateExpectation(c)} : AddCheck(p, c)
        \/ AddReadIds(p)
        \/ AddAppend(p)
        \/ AddStamp(p)
        \/ \E id \in (1..(MaxRows + 1)), c \in UpdateCands : UpdateFind(p, id, c)
        \/ UpdateCheck(p)
        \/ UpdateWrite(p)
        \/ \E id \in (1..(MaxRows + 1)), a \in BOOLEAN : StatusFind(p, id, a)
        \/ StatusCheck(p)
        \/ StatusWrite(p)

SpecConc == Init /\ [][NextConc]_vars

(* ---------------------------------- a store that already holds an overlap *)
(* two active rows of one resource and type with intersecting windows, as two
   unsynchronised calls or an edit made by hand in the spreadsheet leave them *)
OverlappingSheets ==
    {<<NewRow(1, Plain(1, "Agent", MinDate, MinDate, TRUE)),
       NewRow(2, Plain(1, "Agent", MinDate, MaxDate, TRUE))>>,
     <<NewRow(1, Plain(1, "Agent", MinDate + 1, MaxDate, TRUE)),
       NewRow(2, Plain(1, "Agent", MinDate + 1, MaxDate, TRUE))>>}

InitOverlapping ==
    /\ OutsideAtRest
    /\ sheet \in OverlappingSheets
    /\ emID \in {NoEmID, UserEmID}
    /\ last = Outcome("none", 0, NoCand, FALSE, "none", 0)
    /\ proc = [p \in Procs |-> Idle]

SpecOverlapping == InitOverlapping /\ [][Next]_vars

(* --------------------------------------- the two checks called on their own *)
CadenceValues == {Num(0), Num(-1), Str(1), [k |-> "NaN", v |-> 0]}

DateValues == {MinDate - 1, MinDate, MaxDate, MaxDate + 1, NaD}

ValidateCands ==
    {Cand(1, "Agent", s, e, TRUE, p, o, b) :
        s \in DateValues, e \in DateValues,
        p \in CadenceValues, o \in CadenceValues, b \in CadenceValues}

Windows == {w \in (MinDate..MaxDate) \X (MinDate..MaxDate) : w[1] <= w[2]}

ScanCands ==
    {Plain(1, "Agent", w[1], w[2], a) : w \in Windows, a \in BOOLEAN}
    \cup {Plain(2, "Agent", MinDate, MaxDate, TRUE),
          Plain(1, "Workgroup", MinDate, MaxDate, TRUE)}

ScanArgs ==
    {Outcome("checkForOverlap", ignoreId, Plain(r, t, w[1], w[2], TRUE), FALSE, "pending", 0) :
        ignoreId \in {NoIgnoreId, 1, 2}, r \in {1, 2}, t \in {"Agent", "Workgroup"},
        w \in Windows}

InitPure ==
    /\ OutsideAtRest
    /\ emID = UserEmID
    /\ proc = [p \in Procs |-> Idle]
    /\ \/ /\ sheet = <<>>
          /\ last \in {Outcome("validate", 0, c, c.active, "pending", 0) : c \in ValidateCands}
       \/ /\ sheet \in UNION {{[i \in 1..n |-> NewRow(i, f[i])] : f \in [1..n -> ScanCands]} :
                                 n \in 1..MaxRows}
          /\ last \in ScanArgs

ValidateExpectation ==
    /\ last.op = "validate" /\ last.status = "pending"
    /\ last' = [last EXCEPT
                  !.status = IF validateExpectation(last.cand) THEN "ok" ELSE "validation"]
    /\ UNCHANGED <<sheet, emID, proc, outside>>

CheckForOverlap ==
    /\ last.op = "checkForOverlap" /\ last.status = "pending"
    /\ last' = [last EXCEPT
                  !.status = "returned",
                  !.result = checkForOverlap(sheet, last.cand.resourceId,
                                             last.cand.expectationType, last.cand.startDate,
                                             last.cand.endDate, last.id)]
    /\ UNCHANGED <<sheet, emID, proc, outside>>

NextPure == ValidateExpectation \/ CheckForOverlap

SpecPure == InitPure /\ [][NextPure]_vars

(* ------------------------------------------------- user administration *)
(* The script property 'users' maps an email to a role; every call runs for the
   user of the session.  A blank email is what the session gives when the user's
   identity is not available to the script. *)
OWNER == "owner"
ADMIN == "admin"
EDITOR == "editor"

(* Object.values(ROLES) *)
RoleValues == {OWNER, ADMIN, EDITOR}

NoRole == ""

EmailArgs == {"ann", "bob", "cy"} \cup {NoEmail}

Ok == "ok"

(* users[email], and ROLES.VIEWER when the map has no such key *)
authenticate(us, email) == IF email \in DOMAIN us THEN us[email] ELSE "undefined"

(* a check that lets editors through as well *)
validateAdminOrEditor(us, email) ==
    IF email = NoEmail THEN "Email is required for authentication"
    ELSE IF authenticate(us, email) \notin {ADMIN, OWNER, EDITOR}
         THEN "Only admins can perform this action"
    ELSE Ok

(* the error validateAdmin throws for the session's user, Ok when it returns *)
validateAdmin(us, email) ==
    IF email = NoEmail THEN "Email is required for authentication"
    ELSE IF authenticate(us, email) # ADMIN /\ authenticate(us, email) # OWNER
         THEN "Only admins can perform this action"
    ELSE Ok

(* called only after validateAdmin has returned, so the email is not blank *)
validateOwner(us, email) == authenticate(us, email) = OWNER

SetUser(us, email, role) ==
    [e \in DOMAIN us \cup {email} |-> IF e = email THEN role ELSE us[e]]

Failed(us, error) == [status |-> error, users |-> us]

addNewUserResult(us, caller, email, role) ==
    IF validateAdmin(us, caller) # Ok THEN Failed(us, validateAdmin(us, caller))
    ELSE IF email = NoEmail \/ role = NoRole THEN Failed(us, "Both email and role are required")
    ELSE IF role \notin RoleValues THEN Failed(us, "Invalid role specified")
    ELSE IF role = OWNER /\ ~ validateOwner(us, caller)
         THEN Failed(us, "Only the current owner can modify owners")
    ELSE [status |-> Ok, users |-> SetUser(us, email, role)]

editUserResult(us, caller, email, newRole) ==
    IF validateAdmin(us, caller) # Ok THEN Failed(us, validateAdmin(us, caller))
    ELSE IF email = NoEmail \/ newRole = NoRole THEN Failed(us, "Both email and role are required")
    ELSE IF newRole \notin RoleValues THEN Failed(us, "Invalid role specified")
    ELSE IF newRole = OWNER /\ ~ validateOwner(us, caller)
         THEN Failed(us, "Only the current owner can modify owners")
    ELSE IF email \notin DOMAIN us THEN Failed(us, "User does not exist")
    ELSE [status |-> Ok, users |-> SetUser(us, email, newRole)]

removeUserResult(us, caller, email) ==
    IF validateAdmin(us, caller) # Ok THEN Failed(us, validateAdmin(us, caller))
    ELSE IF email = NoEmail THEN Failed(us, "Email is required")
    ELSE IF email \notin DOMAIN us THEN Failed(us, "User does not exist")
    ELSE [status |-> Ok, users |-> ([e \in DOMAIN us \ {email} |-> us[e]])]

UserCall(op, caller, email, role, status) ==
    [op |-> op, caller |-> caller, email |-> email, role |-> role, status |-> status]

(* the store of expectations plays no part in the calls below *)
StoreAtRest ==
    /\ sheet = <<>>
    /\ emID = UserEmID
    /\ proc = [p \in Procs |-> Idle]

(* no user stored yet, or the owner alone *)
InitUsers ==
    /\ StoreAtRest
    /\ lock = NoLock
    /\ workbook = <<>>
    /\ page = <<>>
    /\ users \in {<<>>, SetUser(<<>>, "ann", OWNER)}
    /\ activeUser = NoEmail
    /\ last = UserCall("none", NoEmail, NoEmail, NoRole, "none")

AddNewUser(caller, email, role) ==
    LET r == addNewUserResult(users, caller, email, role)
    IN  /\ activeUser' = caller
        /\ users' = r.users
        /\ last' = UserCall("addNewUser", caller, email, role, r.status)
        /\ UNCHANGED <<sheet, emID, proc, lock, workbook, page>>

EditUser(caller, email, newRole) ==
    LET r == editUserResult(users, caller, email, newRole)
    IN  /\ activeUser' = caller
        /\ users' = r.users
        /\ last' = UserCall("editUser", caller, email, newRole, r.status)
        /\ UNCHANGED <<sheet, emID, proc, lock, workbook, page>>

RemoveUser(caller, email) ==
    LET r == removeUserResult(users, caller, email)
    IN  /\ activeUser' = caller
        /\ users' = r.users
        /\ last' = UserCall("removeUser", caller, email, NoRole, r.status)
        /\ UNCHANGED <<sheet, emID, proc, lock, workbook, page>>

NextUsers ==
    \/ \E caller \in EmailArgs, email \in EmailArgs, role \in (RoleValues \cup {"viewer", NoRole}) :
          AddNewUser(caller, email, role)
    \/ \E caller \in EmailArgs, email \in EmailArgs, role \in (RoleValues \cup {"viewer", NoRole}) :
          EditUser(caller, email, role)
    \/ \E caller \in EmailArgs, email \in EmailArgs : RemoveUser(caller, email)

SpecUsers == InitUsers /\ [][NextUsers]_vars

(* ------------------------------------------ authenticate called on its own *)
(* what authenticate hands back: the error it throws, or the role it returns *)
authenticateResult(us, email) ==
    IF email = NoEmail THEN [status |-> "Email is required for authentication", role |-> NoRole]
    ELSE [status |-> Ok, role |-> authenticate(us, email)]

InitAuth ==
    /\ StoreAtRest
    /\ lock = NoLock
    /\ workbook = <<>>
    /\ page = <<>>
    /\ users \in (UNION {[D -> RoleValues] : D \in SUBSET {"ann", "bob", "cy"}})
    /\ activeUser = NoEmail
    /\ last \in {UserCall("authenticate", NoEmail, email, NoRole, "pending") :
                    email \in EmailArgs}

Authenticate ==
    /\ last.op = "authenticate" /\ last.status = "pending"
    /\ last' = [last EXCEPT !.status = authenticateResult(users, last.email).status,
                            !.role = authenticateResult(users, last.email).role]
    /\ UNCHANGED <<sheet, emID, proc, users, activeUser, lock, workbook, page>>

NextAuth == Authenticate

SpecAuth == InitAuth /\ [][NextAuth]_vars

(* --------------------------------------------------------- the call queue *)
(* The client reaches the three handlers through google.script.run.enqueue(name,
   ...).  Every such call is an execution of the script of its own, and the globals
   functionQueue and isProcessing are initialised anew in each.  A process below is
   one execution making its one enqueue call; its steps are the stretches of code
   between two awaits.  The name is any string the caller sends: a handler, a name
   that no function has, or "enqueue" itself, whose parameter is then the name that
   the inner enqueue call pushes while the outer task is being processed.  The
   execution has thus at most two tasks: its own and the inner one. *)
ClientFunctions == {"addNewExpectation", "updateExpectationData", "setExpectationStatus"}

FunctionNames == ClientFunctions \cup {"noSuchFunction"}

QueueIdle == [pc |-> "idle", functionName |-> "none", param |-> "none",
              functionQueue |-> <<>>, isProcessing |-> FALSE, current |-> "none",
              task |-> "none", status |-> "none", error |-> "none",
              inner |-> "none", innerStatus |-> "none", after |-> {}]

(* the executions whose enqueue call has begun and not yet completed *)
InProgress == {q \in Procs : proc[q].pc \notin {"idle", "done"}}

(* the task the loop takes next: the execution's own first, the inner one after it *)
NextTask(q) == IF q.task = "queued" THEN "own" ELSE "inner"

Mark(q, which, state) ==
    IF which = "own" THEN [q EXCEPT !.task = state] ELSE [q EXCEPT !.inner = state]

InitQueue ==
    /\ sheet = <<>>
    /\ emID = UserEmID
    /\ last = Outcome("none", 0, NoCand, FALSE, "none", 0)
    /\ OutsideAtRest
    /\ proc = [p \in Procs |-> QueueIdle]

(* an enqueue that takes the flag as set, as if a call before it had left it so *)
EnqueueFindsFlagSet(p, functionName, param) ==
    /\ proc[p].pc = "idle"
    /\ proc' = [proc EXCEPT ![p] =
                  [QueueIdle EXCEPT !.functionName = functionName,
                                    !.param = param,
                                    !.functionQueue = <<functionName>>,
                                    !.task = "queued",
                                    !.after = InProgress,
                                    !.isProcessing = TRUE,
                                    !.pc = "done",
                                    !.status = "resolved"]]
    /\ UNCHANGED <<sheet, emID, last, outside>>

(* enqueue up to its await: push, test the flag, set it and call processQueue *)
Enqueue(p, functionName, param) ==
    /\ proc[p].pc = "idle"
    /\ proc' = [proc EXCEPT ![p] =
                  [QueueIdle EXCEPT !.functionName = functionName,
                                    !.param = param,
                                    !.functionQueue = <<functionName>>,
                                    !.task = "queued",
                                    !.after = InProgress,
                                    !.isProcessing = TRUE,
                                    !.pc = IF proc[p].isProcessing THEN "done" ELSE "loop",
                                    !.status = IF proc[p].isProcessing THEN "resolved"
                                               ELSE "pending"]]
    /\ UNCHANGED <<sheet, emID, last, outside>>

(* one turn of the while loop that finds a handler of that name and calls it *)
ProcessQueueCalls(p) ==
    /\ proc[p].pc = "loop"
    /\ Len(proc[p].functionQueue) > 0
    /\ Head(proc[p].functionQueue) \in ClientFunctions
    /\ proc' = [proc EXCEPT ![p] =
                  [Mark(@, NextTask(@), "running") EXCEPT
                      !.functionQueue = Tail(@), !.current = NextTask(proc[p]),
                      !.pc = "awaitFn"]]
    /\ UNCHANGED <<sheet, emID, last, outside>>

(* one turn that calls enqueue itself: the inner call pushes its name, finds
   isProcessing set, and returns at once; the loop goes on *)
ProcessQueueCallsEnqueue(p) ==
    /\ proc[p].pc = "loop"
    /\ Len(proc[p].functionQueue) > 0
    /\ Head(proc[p].functionQueue) = "enqueue"
    /\ proc' = [proc EXCEPT ![p].functionQueue = Append(Tail(@), proc[p].param),
                            ![p].task = "returned",
                            ![p].inner = "queued",
                            ![p].innerStatus = IF proc[p].isProcessing THEN "resolved"
                                               ELSE "pending"]
    /\ UNCHANGED <<sheet, emID, last, outside>>

(* one turn that finds no such function: processQueue throws, the enqueue that
   awaits it rejects, and isProcessing is never reset *)
ProcessQueueRejectsName(p) ==
    /\ proc[p].pc = "loop"
    /\ Len(proc[p].functionQueue) > 0
    /\ Head(proc[p].functionQueue) \notin ClientFunctions \cup {"enqueue"}
    /\ proc' = [proc EXCEPT ![p] =
                  [Mark(@, NextTask(@), "missing") EXCEPT
                      !.functionQueue = Tail(@), !.pc = "done",
                      !.status = "rejected", !.error = NextTask(proc[p])]]
    /\ UNCHANGED <<sheet, emID, last, outside>>

FunctionReturns(p) ==
    /\ proc[p].pc = "awaitFn"
    /\ proc' = [proc EXCEPT ![p] = [Mark(@, @.current, "returned") EXCEPT !.pc = "loop"]]
    /\ UNCHANGED <<sheet, emID, last, outside>>

(* the catch block logs and rethrows: processQueue rejects, and with it the enqueue
   call that awaits it *)
FunctionThrows(p) ==
    /\ proc[p].pc = "awaitFn"
    /\ proc' = [proc EXCEPT ![p] =
                  [Mark(@, @.current, "threw") EXCEPT
                      !.pc = "done", !.status = "rejected", !.error = proc[p].current]]
    /\ UNCHANGED <<sheet, emID, last, outside>>

(* the loop finds the queue empty, processQueue returns and enqueue goes on *)
ProcessQueueEnds(p) ==
    /\ proc[p].pc = "loop"
    /\ Len(proc[p].functionQueue) = 0
    /\ proc' = [proc EXCEPT ![p].isProcessing = FALSE, ![p].pc = "done",
                            ![p].status = "resolved"]
    /\ UNCHANGED <<sheet, emID, last, outside>>

NextQueue ==
    \/ \E p \in Procs,
          args \in {<<f, "none">> : f \in FunctionNames}
                      \cup {<<"enqueue", f>> : f \in FunctionNames} :
          Enqueue(p, args[1], args[2])
    \/ \E p \in Procs : ProcessQueueCalls(p)
    \/ \E p \in Procs : ProcessQueueCallsEnqueue(p)
    \/ \E p \in Procs : ProcessQueueRejectsName(p)
    \/ \E p \in Procs : FunctionReturns(p)
    \/ \E p \in Procs : FunctionThrows(p)
    \/ \E p \in Procs : ProcessQueueEnds(p)

SpecQueue == InitQueue /\ [][NextQueue]_vars

(* an execution that has begun goes on to its end, and a function that was called
   returns or throws *)
QueueRuns(p) ==
    \/ ProcessQueueCalls(p)
    \/ ProcessQueueCallsEnqueue(p)
    \/ ProcessQueueRejectsName(p)
    \/ FunctionReturns(p)
    \/ FunctionThrows(p)
    \/ ProcessQueueEnds(p)

SpecQueueFair == SpecQueue /\ \A p \in Procs : WF_vars(QueueRuns(p))

(* ------------------------------------------------------- the script lock *)
LockIdle == [pc |-> "idle", impl |-> "none", callback |-> "none", executed |-> 0,
             waits |-> 0, error |-> "none", status |-> "none"]

(* a release placed after the callback inside the try block: skipped on a throw *)
releaseLockInTry(l, p, error) == IF l = p /\ error = "none" THEN NoLock ELSE l

(* lock.releaseLock() in the finally block: frees the lock if this execution holds it *)
releaseLock(l, p, error) == IF l = p THEN NoLock ELSE l

(* what the caller gets: the two implementations differ in how they hand it over *)
Surfaced(impl, error) ==
    IF error = "none" THEN (IF impl = "sync" THEN "returned" ELSE "resolved")
    ELSE (IF impl = "sync" THEN "thrown" ELSE "rejected")

InitLock ==
    /\ sheet = <<>>
    /\ emID = UserEmID
    /\ last = Outcome("none", 0, NoCand, FALSE, "none", 0)
    /\ users = <<>>
    /\ activeUser = NoEmail
    /\ workbook = <<>>
    /\ page = <<>>
    /\ lock = NoLock
    /\ proc = [p \in Procs |-> LockIdle]

WithLock(p, impl, callback) ==
    /\ proc[p].pc = "idle"
    /\ proc' = [proc EXCEPT ![p] = [LockIdle EXCEPT !.pc = "waitLock", !.impl = impl,
                                                    !.callback = callback]]
    /\ UNCHANGED <<sheet, emID, last, users, activeUser, workbook, lock, page>>

WaitLockAcquires(p) ==
    /\ proc[p].pc = "waitLock"
    /\ lock = NoLock
    /\ lock' = p
    /\ proc' = [proc EXCEPT ![p].pc = "callback", ![p].waits = @ + 1]
    /\ UNCHANGED <<sheet, emID, last, users, activeUser, workbook, page>>

WaitLockTimesOut(p) ==
    /\ proc[p].pc = "waitLock"
    /\ lock \notin {NoLock, p}
    /\ proc' = [proc EXCEPT ![p].pc = "catch", ![p].waits = @ + 1, ![p].error = "timeout"]
    /\ UNCHANGED <<sheet, emID, last, users, activeUser, workbook, lock, page>>

RunCallback(p) ==
    /\ proc[p].pc = "callback"
    /\ proc' = [proc EXCEPT
                  ![p].executed = @ + 1,
                  ![p].pc = IF proc[p].callback = "throws" THEN "catch" ELSE "finally",
                  ![p].error = IF proc[p].callback = "throws" THEN "callback" ELSE "none"]
    /\ UNCHANGED <<sheet, emID, last, users, activeUser, workbook, lock, page>>

Catch(p) ==
    /\ proc[p].pc = "catch"
    /\ proc' = [proc EXCEPT ![p].pc = "finally"]
    /\ UNCHANGED <<sheet, emID, last, users, activeUser, workbook, lock, page>>

Finally(p) ==
    /\ proc[p].pc = "finally"
    /\ lock' = releaseLock(lock, p, proc[p].error)
    /\ proc' = [proc EXCEPT ![p].pc = "done",
                            ![p].status = Surfaced(proc[p].impl, proc[p].error)]
    /\ UNCHANGED <<sheet, emID, last, users, activeUser, workbook, page>>

(* the execution goes on to its next statement, which may be another _withLock *)
Continue(p) ==
    /\ proc[p].pc = "done"
    /\ proc' = [proc EXCEPT ![p] = LockIdle]
    /\ UNCHANGED <<sheet, emID, last, users, activeUser, workbook, lock, page>>

NextLock ==
    \/ \E p \in Procs, impl \in {"sync", "promise"}, callback \in {"returns", "throws"} :
          WithLock(p, impl, callback)
    \/ \E p \in Procs : WaitLockAcquires(p)
    \/ \E p \in Procs : WaitLockTimesOut(p)
    \/ \E p \in Procs : RunCallback(p)
    \/ \E p \in Procs : Catch(p)
    \/ \E p \in Procs : Finally(p)
    \/ \E p \in Procs : Continue(p)

SpecLock == InitLock /\ [][NextLock]_vars

(* ---------------------------------------------------------- the form graph *)
(* getFormData (formPage.js and Code.gs) and the form part of generateJSON read the
   sheets tbl_coaching_forms, forms, tbl_coaching_questions and questions through
   populateData and nest the questions into their forms.  A row of 'forms' is
   [id, name], a row of 'questions' [formId, version, id, rank, type]; the name of
   a form and the id of a question are here the place of the row in its sheet.
   The tbl_ sheets are kept as the set of ids they hold a row for. *)
FormIds == 1..MaxForms

Workbooks ==
    {[forms |-> fs, questions |-> qs, tblForms |-> tf, tblQuestions |-> tq] :
        fs \in UNION {{[i \in 1..n |-> [id |-> f[i], name |-> i]] : f \in [1..n -> FormIds]} :
                         n \in 0..MaxForms},
        qs \in UNION {{[i \in 1..n |-> [formId |-> f[i][1], version |-> f[i][2], id |-> i]] :
                            f \in [1..n -> (1..(MaxForms + 1)) \X {1, 2}]} :
                         n \in 0..MaxQuestions},
        tf \in {{}, {1}}, tq \in {{}, {1}}}

(* sheet.getRange(skipRows + 1, 1, sheet.getLastRow() - skipRows, columnCount) of a
   sheet with no row under its header: the spreadsheet service throws *)
PopulateThrows(wb) ==
    \/ wb.tblForms = {}
    \/ Len(wb.forms) = 0
    \/ wb.tblQuestions = {}
    \/ Len(wb.questions) = 0

RECURSIVE Distinct(_)
(* the versions pushed one by one, repeats kept *)
Repeated(seq) == seq

(* [...new Set(seq)]: the values in the order of their first appearance *)
Distinct(seq) ==
    IF Len(seq) = 0 THEN <<>>
    ELSE LET front == Distinct(SubSeq(seq, 1, Len(seq) - 1))
             x == seq[Len(seq)]
         IN  IF \E k \in DOMAIN front : front[k] = x THEN front ELSE Append(front, x)

(* the question object built from a row of 'questions' and its tbl_ row, if any *)
Question(wb, row) ==
    [id |-> row.id, version |-> row.version, hasText |-> row.id \in wb.tblQuestions]

(* form.questions[i].version for every i *)
VersionsPushed(questions) == [k \in 1..Len(questions) |-> ((questions[k]).version)]

(* data[id] = {...}: a later row of 'forms' with the same id replaces the earlier *)
FormRowOf(wb, id) ==
    wb.forms[CHOOSE i \in DOMAIN wb.forms :
                /\ wb.forms[i].id = id
                /\ \A j \in DOMAIN wb.forms : wb.forms[j].id = id => j <= i]

(* the questions pushed to formData[id], in the order of their rows *)
QuestionsOf(wb, id) ==
    LET rows == SelectSeq(wb.questions, LAMBDA row : row.formId = id)
    IN  [k \in 1..Len(rows) |-> Question(wb, rows[k])]

formGraph(wb) ==
    [id \in {wb.forms[i].id : i \in DOMAIN wb.forms} |->
        [id |-> id,
         name |-> FormRowOf(wb, id).name,
         configured |-> id \in wb.tblForms,
         versions |-> Distinct(VersionsPushed(QuestionsOf(wb, id))),
         questions |-> QuestionsOf(wb, id)]]

Projection(op, status, result) == [op |-> op, status |-> status, result |-> result]

InitForms ==
    /\ StoreAtRest
    /\ users = <<>>
    /\ activeUser = NoEmail
    /\ lock = NoLock
    /\ page = <<>>
    /\ workbook \in Workbooks
    /\ last = Projection("none", "pending", <<>>)

GetFormData ==
    /\ last.status = "pending"
    /\ last' = IF PopulateThrows(workbook) THEN Projection("getFormData", "exception", <<>>)
               ELSE Projection("getFormData", "ok", formGraph(workbook))
    /\ UNCHANGED <<sheet, emID, proc, users, activeUser, lock, workbook, page>>

GenerateJSON ==
    /\ last.status = "pending"
    /\ last' = IF PopulateThrows(workbook) THEN Projection("generateJSON", "exception", <<>>)
               ELSE Projection("generateJSON", "ok", formGraph(workbook))
    /\ UNCHANGED <<sheet, emID, proc, users, activeUser, lock, workbook, page>>

NextForms == GetFormData \/ GenerateJSON

SpecForms == InitForms /\ [][NextForms]_vars

(* ------------------------------------------------- the configuration sheet *)
(* APIv1.js keeps the forms in use in the sheet tbl_coaching_forms: two header rows
   and under them one row per form, [id, name, performance, oneToOne, sideBySide,
   updatedBy, updatedOn].  The three checkboxes are one field here, and the date is
   left out.  workbook is [tblForms, blankRows, userIDs]: the rows of the sheet
   that have content, whether the grid has empty rows under them, and the rows of
   the sheet 'User IDs'.  A process is one execution of updateForm or removeForm,
   and its steps are its stretches of code between two points where another
   execution can act on the sheet or on the script lock. *)
HEADER_ROWS == 2

HeaderRows == [k \in 1..HEADER_ROWS |-> [id |-> 0 - k, name |-> 0 - k,
                                         boxes |-> <<FALSE, FALSE, FALSE>>,
                                         updatedBy |-> 0]]

(* the id of a call made without one; the calls below are made with it, with "0",
   with the ids a sheet may hold (names are 10 + id), and with one no sheet holds *)
MissingId == 0 - 1

StoredForm(formId) ==
    [id |-> formId, name |-> 10 + formId, boxes |-> <<FALSE, FALSE, FALSE>>,
     updatedBy |-> UserEmID]

TblForms ==
    UNION {{HeaderRows \o [k \in 1..n |-> StoredForm(f[k])] :
                f \in {g \in [1..n -> FormIds] : \A a, b \in 1..n : a # b => g[a] # g[b]}} :
              n \in 0..MaxForms}

(* the column of ids from the first data row down to getLastRow() *)
IDs(tbl) == [k \in 1..(Len(tbl) - HEADER_ROWS) |-> tbl[k + HEADER_ROWS].id]

(* Array.prototype.indexOf: the first position, counted from 0, or -1 *)
indexOf(seq, x) ==
    IF \E k \in 1..Len(seq) : seq[k] = x
    THEN (CHOOSE k \in 1..Len(seq) : seq[k] = x /\ \A j \in 1..(k - 1) : seq[j] # x) - 1
    ELSE 0 - 1

(* getRange(HEADER_ROWS + 1, ID_COL, getLastRow() - HEADER_ROWS) of a sheet without
   a data row asks for 0 rows, and the service throws *)
IDsThrow(tbl) == Len(tbl) - HEADER_ROWS = 0

(* _getFormIDs: getRange("A3:A") goes down to the end of the grid, and Number of
   an empty cell is 0 *)
_getFormIDs(wb) ==
    {wb.tblForms[k].id : k \in (HEADER_ROWS + 1)..Len(wb.tblForms)}
        \cup (IF wb.blankRows THEN {0} ELSE {})

(* _getCurrentUserID: the id of the first row of 'User IDs' with the email, NoEmID
   where the function throws *)
_getCurrentUserID(wb, email) ==
    IF \E k \in 1..Len(wb.userIDs) : wb.userIDs[k][2] = email
    THEN wb.userIDs[CHOOSE k \in 1..Len(wb.userIDs) :
                      /\ wb.userIDs[k][2] = email
                      /\ \A j \in 1..(k - 1) : wb.userIDs[j][2] # email][1]
    ELSE NoEmID

(* getRange(row, ID_COL, ROW_SPAN, COL_SPAN).setValues([newRow]) *)
setValues(tbl, row, newRow) ==
    IF row <= Len(tbl) THEN [tbl EXCEPT ![row] = newRow] ELSE Append(tbl, newRow)

(* sheet.deleteRow(row): the rows under it move up *)
deleteRow(tbl, row) ==
    [k \in 1..(Len(tbl) - 1) |-> IF k < row THEN tbl[k] ELSE tbl[k + 1]]

ConfigIdle == [pc |-> "idle", op |-> "none", id |-> MissingId, boxes |-> <<FALSE, FALSE, FALSE>>,
               row |-> 0, updatedBy |-> NoEmID, status |-> "none", error |-> "none",
               wrote |-> FALSE]

Rejected(q, message) == [q EXCEPT !.pc = "done", !.status = "rejected", !.error = message]

(* nothing is left to run, and neither resolve nor reject of the promise that the
   caller awaits has been called *)
NeverSettled(q, message) ==
    [q EXCEPT !.pc = "done", !.status = "pending", !.error = message]

InitConfig ==
    /\ sheet = <<>>
    /\ emID = UserEmID
    /\ last = Outcome("none", 0, NoCand, FALSE, "none", 0)
    /\ users = <<>>
    /\ lock = NoLock
    /\ page = <<>>
    /\ activeUser \in {"ann", "cy"}
    /\ workbook \in {[tblForms |-> t, blankRows |-> b, userIDs |-> <<<<UserEmID, "ann">>>>] :
                        t \in TblForms, b \in BOOLEAN}
    /\ proc = [p \in Procs |-> ConfigIdle]

(* updateForm up to the call of _withLock in the executor of _updateForm; Boolean()
   has made the three values booleans, so no validation of them fails *)
UpdateForm(p, id, boxes) ==
    /\ proc[p].pc = "idle"
    /\ proc' = [proc EXCEPT ![p] =
                  IF id = MissingId
                  THEN Rejected([ConfigIdle EXCEPT !.op = "updateForm"], "Missing Form ID")
                  ELSE [ConfigIdle EXCEPT !.op = "updateForm", !.id = id,
                                          !.boxes = boxes, !.pc = "waitLock",
                                          !.status = "pending"]]
    /\ UNCHANGED <<sheet, emID, last, users, activeUser, workbook, lock, page>>

(* removeForm up to the await of _getFormIDs; validateValue('Form ID', ...) returns
   a promise, which is never falsy *)
RemoveForm(p, id) ==
    /\ proc[p].pc = "idle"
    /\ proc' = [proc EXCEPT ![p] =
                  IF id = MissingId
                  THEN Rejected([ConfigIdle EXCEPT !.op = "removeForm"], "Missing Form ID")
                  ELSE [ConfigIdle EXCEPT !.op = "removeForm", !.id = id,
                                          !.pc = "check", !.status = "pending"]]
    /\ UNCHANGED <<sheet, emID, last, users, activeUser, workbook, lock, page>>

(* _getFormIDs under the lock, and the test of its result *)
RemoveFormChecks(p) ==
    /\ proc[p].pc = "check"
    /\ lock = NoLock
    /\ proc' = [proc EXCEPT ![p] =
                  IF ~ workbook.blankRows /\ Len(workbook.tblForms) = HEADER_ROWS
                  THEN Rejected(@, "range of 0 rows")
                  ELSE IF proc[p].id \notin _getFormIDs(workbook)
                       THEN Rejected(@, "Form ID does not exist.")
                       ELSE [@ EXCEPT !.pc = "waitLock"]]
    /\ UNCHANGED <<sheet, emID, last, users, activeUser, workbook, lock, page>>

(* lock.waitLock(LOCK_WAIT_TIME) returns with the lock *)
ConfigLockAcquired(p) ==
    /\ proc[p].pc = "waitLock"
    /\ lock = NoLock
    /\ lock' = p
    /\ proc' = [proc EXCEPT ![p].pc = "locked"]
    /\ UNCHANGED <<sheet, emID, last, users, activeUser, workbook, page>>

(* waitLock throws while another execution holds the lock: _withLock rejects its
   own promise.  removeForm returns that promise; the executor of _updateForm
   drops it, and its own promise is left as it is *)
ConfigLockTimesOut(p) ==
    /\ proc[p].pc \in {"check", "waitLock"}
    /\ lock \notin {NoLock, p}
    /\ proc' = [proc EXCEPT ![p] =
                  IF proc[p].op = "updateForm" THEN NeverSettled(@, "Could not obtain lock")
                  ELSE Rejected(@, "Could not obtain lock")]
    /\ UNCHANGED <<sheet, emID, last, users, activeUser, workbook, lock, page>>

(* the callback of _updateForm up to _getCurrentUserID, which reads 'User IDs'
   through _withLock itself: its finally releases the script lock *)
UpdateFormLooksUp(p) ==
    /\ proc[p].pc = "locked"
    /\ proc[p].op = "updateForm"
    /\ lock' = NoLock
    /\ proc' = [proc EXCEPT ![p] =
                  IF IDsThrow(workbook.tblForms) THEN NeverSettled(@, "range of 0 rows")
                  ELSE IF _getCurrentUserID(workbook, activeUser) = NoEmID
                       THEN NeverSettled(@, "No user ID found for email")
                       ELSE [@ EXCEPT !.pc = "write",
                                      !.row = indexOf(IDs(workbook.tblForms), proc[p].id)
                                                + HEADER_ROWS + 1,
                                      !.updatedBy =
                                          _getCurrentUserID(workbook, activeUser)]]
    /\ UNCHANGED <<sheet, emID, last, users, activeUser, workbook, page>>

(* the rest of the callback: the name is read from the row, the row is written,
   and resolve is called *)
UpdateFormWrites(p) ==
    /\ proc[p].pc = "write"
    /\ workbook' = [workbook EXCEPT !.tblForms =
                      setValues(@, proc[p].row,
                                [id |-> proc[p].id,
                                 name |-> IF proc[p].row <= Len(workbook.tblForms)
                                          THEN workbook.tblForms[proc[p].row].name
                                          ELSE 0,
                                 boxes |-> proc[p].boxes,
                                 updatedBy |-> proc[p].updatedBy])]
    /\ proc' = [proc EXCEPT ![p].pc = "done", ![p].status = "resolved",
                            ![p].wrote = TRUE]
    /\ UNCHANGED <<sheet, emID, last, users, activeUser, lock, page>>

(* the callback of _removeForm, and the finally of _withLock *)
RemoveFormDeletes(p) ==
    /\ proc[p].pc = "locked"
    /\ proc[p].op = "removeForm"
    /\ lock' = NoLock
    /\ IF IDsThrow(workbook.tblForms)
       THEN /\ proc' = [proc EXCEPT ![p] = Rejected(@, "range of 0 rows")]
            /\ UNCHANGED workbook
       ELSE /\ workbook' = [workbook EXCEPT !.tblForms =
                              deleteRow(@, indexOf(IDs(workbook.tblForms), proc[p].id)
                                             + HEADER_ROWS + 1)]
            /\ proc' = [proc EXCEPT ![p].pc = "done", ![p].status = "resolved",
                                    ![p].wrote = TRUE,
                                    ![p].row = indexOf(IDs(workbook.tblForms), proc[p].id)
                                                 + HEADER_ROWS + 1]
    /\ UNCHANGED <<sheet, emID, last, users, activeUser, page>>

NextConfig ==
    \/ \E p \in Procs, id \in {MissingId, 0} \cup FormIds \cup {MaxForms + 1},
          boxes \in {<<TRUE, FALSE, TRUE>>} :
          UpdateForm(p, id, boxes)
    \/ \E p \in Procs, id \in ({MissingId, 0} \cup FormIds \cup {MaxForms + 1}) : RemoveForm(p, id)
    \/ \E p \in Procs : RemoveFormChecks(p)
    \/ \E p \in Procs : ConfigLockAcquired(p)
    \/ \E p \in Procs : ConfigLockTimesOut(p)
    \/ \E p \in Procs : UpdateFormLooksUp(p)
    \/ \E p \in Procs : UpdateFormWrites(p)
    \/ \E p \in Procs : RemoveFormDeletes(p)

SpecConfig == InitConfig /\ [][NextConfig]_vars

(* ------------------------------------------------------ the client's page *)
(* What the browser holds: the statics of AlertBuilder (activeAlerts, alertQueue,
   additionalAlertElement), the children of #alertContainer that are alerts, the
   field archiveEducated of myDatabase, and the requests handed to
   google.script.run.  An alert is [type, timer, button]: button says what the user
   can click in it, "close", nothing yet ("countdown") or "acknowledge".  The steps
   are the event handlers of the page, each run to its end. *)
MaxDisplayed == 3

(* the seconds of the archive warning, setTimer(15), counted in fewer ticks *)
AcknowledgeTimer == 2

(* builds and requests beyond these are not followed *)
MaxQueued == 2

MaxSent == 2

RemoveAt(seq, k) == [j \in 1..(Len(seq) - 1) |-> IF j < k THEN seq[j] ELSE seq[j + 1]]

(* AlertBuilder.updateDisplay: one alert of the queue is shown if fewer than three
   are counted as shown, and the note about further alerts is set up anew *)
updateDisplay(pg) ==
    LET shown == IF pg.activeAlerts < MaxDisplayed /\ Len(pg.alertQueue) > 0
                 THEN [pg EXCEPT !.container = Append(@, Head(pg.alertQueue)),
                                 !.alertQueue = Tail(@),
                                 !.activeAlerts = @ + 1]
                 ELSE pg
    IN  [shown EXCEPT !.additional = Len(shown.alertQueue) > 0]

(* build: the alert is pushed and updateDisplay called *)
build(pg, alert) == updateDisplay([pg EXCEPT !.alertQueue = Append(@, alert)])

(* remove: the element is taken out, the counter decremented, updateDisplay called *)
remove(pg, k) ==
    updateDisplay([pg EXCEPT !.container = RemoveAt(@, k), !.activeAlerts = @ - 1])

InitAlerts ==
    /\ sheet = <<>>
    /\ emID = UserEmID
    /\ last = Outcome("none", 0, NoCand, FALSE, "none", 0)
    /\ proc = [p \in Procs |-> Idle]
    /\ users = <<>>
    /\ activeUser = NoEmail
    /\ lock = NoLock
    /\ workbook = <<>>
    /\ page = [activeAlerts |-> 0, alertQueue |-> <<>>, container |-> <<>>,
               additional |-> FALSE, archiveEducated |-> FALSE, sent |-> <<>>,
               returned |-> "none"]

(* any of the places that report an error: new AlertBuilder('Error', ...).build() *)
HandleError ==
    /\ Len(page.alertQueue) < MaxQueued
    /\ page' = [build(page, [type |-> "Error", timer |-> 0, button |-> "close"])
                  EXCEPT !.returned = "none"]
    /\ UNCHANGED <<sheet, emID, last, proc, users, activeUser, lock, workbook>>

(* a setExpectationActiveStatus that sends whatever the user has seen *)
SetExpectationActiveStatusUnasked(expectationId, status) ==
    /\ Len(page.alertQueue) < MaxQueued
    /\ Len(page.sent) < MaxSent
    /\ page' = [page EXCEPT !.sent = Append(@, <<expectationId, status>>),
                            !.returned = "true"]
    /\ UNCHANGED <<sheet, emID, last, proc, users, activeUser, lock, workbook>>

SetExpectationActiveStatus(expectationId, status) ==
    /\ Len(page.alertQueue) < MaxQueued
    /\ Len(page.sent) < MaxSent
    /\ page' = IF page.archiveEducated \/ status = TRUE
               THEN [page EXCEPT !.sent = Append(@, <<expectationId, status>>),
                                 !.returned = "true"]
               ELSE [build(page, [type |-> "Acknowledge", timer |-> AcknowledgeTimer,
                                  button |-> "countdown"])
                        EXCEPT !.returned = "false"]
    /\ UNCHANGED <<sheet, emID, last, proc, users, activeUser, lock, workbook>>

(* the interval of startTimer fires for a shown alert that counts down; at 0 the
   countdown is replaced by the Acknowledge button *)
Countdown(k) ==
    /\ k \in 1..Len(page.container)
    /\ page.container[k].button = "countdown"
    /\ page' = [page EXCEPT !.container[k] =
                  [@ EXCEPT !.timer = @ - 1,
                            !.button = IF page.container[k].timer - 1 <= 0
                                       THEN "acknowledge" ELSE "countdown"],
                            !.returned = "none"]
    /\ UNCHANGED <<sheet, emID, last, proc, users, activeUser, lock, workbook>>

(* the user clicks the close button of a shown alert *)
ClickClose(k) ==
    /\ k \in 1..Len(page.container)
    /\ page.container[k].button = "close"
    /\ page' = [remove(page, k) EXCEPT !.returned = "none"]
    /\ UNCHANGED <<sheet, emID, last, proc, users, activeUser, lock, workbook>>

(* the user clicks Acknowledge: the element is taken out and the callback run; the
   listener does not call remove() *)
ClickAcknowledge(k) ==
    /\ k \in 1..Len(page.container)
    /\ page.container[k].button = "acknowledge"
    /\ page' = [page EXCEPT !.container = RemoveAt(@, k),
                            !.archiveEducated = TRUE,
                            !.returned = "none"]
    /\ UNCHANGED <<sheet, emID, last, proc, users, activeUser, lock, workbook>>

NextAlerts ==
    \/ HandleError
    \/ \E id \in {1}, status \in BOOLEAN : SetExpectationActiveStatus(id, status)
    \/ \E k \in 1..MaxDisplayed : Countdown(k)
    \/ \E k \in 1..MaxDisplayed : ClickClose(k)
    \/ \E k \in 1..MaxDisplayed : ClickAcknowledge(k)

SpecAlerts == InitAlerts /\ [][NextAlerts]_vars

(* ------------------------------------------------- the claims' vocabulary *)
(* two inclusive windows share a day *)
Intersects(s1, e1, s2, e2) == s1 # NaD /\ e1 # NaD /\ s2 # NaD /\ e2 # NaD /\ s1 <= e2 /\ e1 >= s2

SameTarget(a, b) == a.resourceId = b.resourceId /\ a.expectationType = b.expectationType

(* an active row that a candidate for the same resource and type would collide with *)
Clash(row, c) ==
    row.active /\ SameTarget(row, c) /\ Intersects(c.startDate, c.endDate, row.startDate, row.endDate)

NoActiveOverlapIn(data) ==
    \A i, j \in DOMAIN data :
        (i # j /\ data[i].active /\ data[j].active /\ SameTarget(data[i], data[j]))
        => ~ Intersects(data[i].startDate, data[i].endDate, data[j].startDate, data[j].endDate)

UniqueIdsIn(data) == \A i, j \in DOMAIN data : i # j => data[i].id # data[j].id

Cadences(c) == {c.performance, c.oneToOne, c.sideBySide}

(* what section 4.1 of the design asks of a candidate, as a list of rejections *)
MeetsValidationRules(c) ==
    /\ ~ \E x \in Cadences(c) : x.k # "number" \/ x.v < 0
    /\ c.startDate # NaD /\ c.endDate # NaD
    /\ ~ (c.startDate < MinDate)
    /\ ~ (c.endDate > MaxDate)
    /\ ~ (c.endDate < c.startDate)

(* C1: from a store without overlapping active rows of one resource and type,
   calls made one at a time never produce two active rows of one resource and type
   whose windows intersect *)
NoActiveOverlap == NoActiveOverlapIn(sheet)

(* C1 witness: an add has succeeded and two active rows of one resource and type
   stand side by side *)
TwoActiveRowsSideBySide ==
    /\ last.op = "add" /\ last.status = "ok"
    /\ \E i, j \in DOMAIN sheet :
          i # j /\ sheet[i].active /\ sheet[j].active /\ SameTarget(sheet[i], sheet[j])

(* C4: an add or update that the overlap check stops reports the id of a row the
   candidate collides with and leaves every cell of the store as it was *)
ConflictReportsRowAndWritesNothing ==
    [][(last'.op \in {"add", "update"} /\ last'.status = "conflict")
        => /\ sheet' = sheet
           /\ \E i \in DOMAIN sheet :
                 /\ sheet[i].id = last'.result
                 /\ Clash(sheet[i], last'.cand)
                 /\ (last'.op = "update" => sheet[i].id # last'.id)]_vars

(* C4 witness: an update was stopped by a conflict with another row *)
UpdateStoppedByConflict ==
    last.op = "update" /\ last.status = "conflict" /\ last.result # last.id

(* C5: an add with a candidate that breaks a validation rule fails with the
   validation error *)
AddValidatesFirst ==
    (last.op = "add" /\ ~ MeetsValidationRules(last.cand)) => last.status = "validation"

(* C7: an update of an existing row with a valid candidate that collides with no
   row other than the one being updated succeeds *)
UpdateExcludesItself ==
    [][(/\ last'.op = "update"
        /\ MeetsValidationRules(last'.cand)
        /\ last'.id \in Ids(sheet)
        /\ \A i \in DOMAIN sheet : sheet[i].id # last'.id => ~ Clash(sheet[i], last'.cand))
        => last'.status = "ok"]_vars

(* C7 witness: an update has succeeded whose candidate is active and collides with
   the updated row alone: the row now holds the candidate, so the same call made
   again meets exactly the row itself *)
UpdateMetOnlyItself ==
    /\ last.op = "update" /\ last.status = "ok" /\ last.cand.active
    /\ \E i \in DOMAIN sheet : sheet[i].id = last.id /\ Clash(sheet[i], last.cand)
    /\ \A i \in DOMAIN sheet : sheet[i].id # last.id => ~ Clash(sheet[i], last.cand)
    /\ Len(sheet) > 1

(* C8: an activation fails with a conflict only against another row: the id it
   reports is never the id it was called with *)
ActivationExcludesItself ==
    (last.op = "setStatus" /\ last.isActive /\ last.status = "conflict")
        => last.result # last.id

(* C9: a deactivation never fails with a conflict, and on an existing id it
   succeeds and leaves the row inactive *)
DeactivationNeverChecks ==
    (last.op = "setStatus" /\ ~ last.isActive)
        => /\ last.status # "conflict"
           /\ last.id \in Ids(sheet)
                => /\ last.status = "ok"
                   /\ \A i \in DOMAIN sheet : sheet[i].id = last.id => ~ sheet[i].active

(* C9 witness: a row was deactivated although an active row of the same resource
   and type has a window that intersects its own *)
DeactivatedAmongOverlaps ==
    /\ last.op = "setStatus" /\ ~ last.isActive /\ last.status = "ok"
    /\ \E i, j \in DOMAIN sheet :
          /\ i # j /\ sheet[i].id = last.id /\ sheet[j].active /\ SameTarget(sheet[i], sheet[j])
          /\ Intersects(sheet[i].startDate, sheet[i].endDate, sheet[j].startDate, sheet[j].endDate)

WellFormed(x) == x.startDate # NaD /\ x.endDate # NaD /\ x.startDate <= x.endDate

Collides(row, c, ignoreId) ==
    /\ row.active
    /\ row.resourceId = c.resourceId /\ row.expectationType = c.expectationType
    /\ row.id # ignoreId
    /\ c.startDate <= row.endDate /\ c.endDate >= row.startDate

(* C6: for a well-formed window and well-formed rows, checkForOverlap returns the
   id of a row if and only if some active row of the same resource and type, other
   than the ignored id, has a window with a day in common with the candidate's,
   and the id it returns is the id of such a row *)
OverlapIffCollision ==
    (/\ last.op = "checkForOverlap" /\ last.status = "returned"
     /\ WellFormed(last.cand)
     /\ \A i \in DOMAIN sheet : WellFormed(sheet[i]))
    => /\ (last.result # NoConflict)
             <=> (\E i \in DOMAIN sheet : Collides(sheet[i], last.cand, last.id))
       /\ last.result # NoConflict
             => \E i \in DOMAIN sheet :
                    sheet[i].id = last.result /\ Collides(sheet[i], last.cand, last.id)

(* C6 witness: the check has returned no conflict for a candidate that starts the
   day after an active row of the same resource and type ends *)
AdjacentWindowsPass ==
    /\ last.op = "checkForOverlap" /\ last.status = "returned" /\ last.result = NoConflict
    /\ \E i \in DOMAIN sheet :
          /\ sheet[i].active /\ SameTarget(sheet[i], last.cand) /\ sheet[i].id # last.id
          /\ sheet[i].endDate + 1 = last.cand.startDate

(* C10: validateExpectation accepts exactly the candidates that meet every rule *)
ValidatorAcceptsExactlyTheRules ==
    (last.op = "validate" /\ last.status # "pending")
        => (last.status = "ok" <=> MeetsValidationRules(last.cand))

(* C10 witness: a candidate spanning the whole allowed window has been accepted *)
WholeWindowAccepted ==
    /\ last.op = "validate" /\ last.status = "ok"
    /\ last.cand.startDate = MinDate /\ last.cand.endDate = MaxDate

AddedOk(p) == proc[p].pc = "done" /\ proc[p].op = "add" /\ proc[p].status = "ok"

(* C2: under any interleaving of two calls no two active rows of one resource and
   type have intersecting windows, and two adds of colliding active candidates
   never both succeed *)
ConcurrentCallsKeepNoOverlap ==
    /\ NoActiveOverlapIn(sheet)
    /\ \A p, q \in Procs :
          (p # q /\ AddedOk(p) /\ AddedOk(q) /\ proc[p].cand.active)
          => ~ Clash(Row(0, proc[q].cand, NoEmID, BlankDate, NoEmID, BlankDate), proc[p].cand)

(* C3: two concurrent adds of candidates that do not collide, both of which
   succeed, return distinct ids *)
ConcurrentAddsGetDistinctIds ==
    \A p, q \in Procs :
        (/\ p # q /\ AddedOk(p) /\ AddedOk(q)
         /\ ~ Clash(Row(0, proc[q].cand, NoEmID, BlankDate, NoEmID, BlankDate), proc[p].cand)
         /\ ~ Clash(Row(0, proc[p].cand, NoEmID, BlankDate, NoEmID, BlankDate), proc[q].cand))
        => proc[p].result # proc[q].result

(* C11: the ids of the stored rows are pairwise distinct in every state the store
   can reach, and an add that has succeeded has given its row an id that no other
   row carries *)
StoredIdsStayUnique ==
    /\ UniqueIdsIn(sheet)
    /\ \A p \in Procs :
          AddedOk(p) => Cardinality({i \in DOMAIN sheet : sheet[i].id = proc[p].result}) = 1

(* C12: an add of a candidate that meets the validation rules, made on a store
   without rows, succeeds, returns the id 1 and leaves one row carrying it *)
EmptyStoreAddSeedsOne ==
    [][(last'.op = "add" /\ Len(sheet) = 0 /\ MeetsValidationRules(last'.cand))
        => /\ last'.status = "ok"
           /\ last'.result = 1
           /\ Ids(sheet') = {1}]_vars

(* C13: an update with a valid candidate, an activation and a deactivation, called
   with an id that no stored row carries, fail with the not-found error and leave
   the store as it was *)
UnknownIdIsNotFound ==
    [][(/\ last'.op \in {"update", "setStatus"}
        /\ last'.id \notin Ids(sheet)
        /\ (last'.op = "update" => MeetsValidationRules(last'.cand)))
        => /\ last'.status = "notFound"
           /\ sheet' = sheet]_vars

(* C14: a call made by a caller without an employee id does not report success and
   leaves the store as it was *)
NoIdentityFailsTheCall ==
    [][(emID = NoEmID /\ last'.op \in {"add", "update", "setStatus"})
        => /\ last'.status # "ok"
           /\ sheet' = sheet]_vars

(* C15: a successful add on a store with rows appends exactly one row, which holds
   the returned id and the candidate's fields, is created by the caller's employee
   id today, and has no modification stamp *)
AddAppendsOneStampedRow ==
    [][(last'.op = "add" /\ last'.status = "ok" /\ Len(sheet) > 0)
        => /\ emID # NoEmID
           /\ sheet' = Append(sheet, Row(last'.result, last'.cand, emID, Today,
                                          NoEmID, BlankDate))]_vars

(* C16: no call removes a row: every id stored before a call is stored after it,
   and the store never gets shorter *)
RowsAreNeverRemoved ==
    [][Ids(sheet) \subseteq Ids(sheet') /\ Len(sheet') >= Len(sheet)]_vars

(* C16 witness: an update and a deactivation have both gone through on a store of
   two rows, and the row last written still carries its id *)
ArchivedRowStillStored ==
    /\ last.op = "setStatus" /\ ~ last.isActive /\ last.status = "ok"
    /\ Len(sheet) = 2
    /\ \E i, j \in DOMAIN sheet :
          /\ sheet[i].id = last.id /\ ~ sheet[i].active /\ sheet[i].modifiedDate = Today
          /\ i # j /\ sheet[j].modifiedDate = Today /\ sheet[j].active

(* the owners stored in a user map *)
Owners(us) == {e \in DOMAIN us : us[e] = OWNER}

(* C19: a call made for a user who is not an owner leaves the owners as they
   were: it makes nobody an owner, and every owner is still stored as an owner *)
OnlyOwnerModifiesOwners ==
    [][authenticate(users, activeUser') # OWNER => Owners(users') = Owners(users)]_vars

(* C20: a call made for a user whose role is neither admin nor owner fails with
   the error 'Only admins can perform this action' and leaves the user map as it
   was; and every role the map stores is owner, admin or editor *)
OnlyAdminsAdminister ==
    [][/\ (activeUser' # NoEmail /\ authenticate(users, activeUser') \notin {ADMIN, OWNER})
            => (last'.status = "Only admins can perform this action" /\ users' = users)
       /\ \A e \in DOMAIN users' : users'[e] \in RoleValues]_vars

(* C20 witness: an editor has tried to remove a stored user, was turned away, and
   the user is still stored *)
EditorTurnedAway ==
    /\ last.op = "removeUser" /\ last.status = "Only admins can perform this action"
    /\ last.caller \in DOMAIN users /\ users[last.caller] = EDITOR
    /\ last.email \in DOMAIN users /\ last.email # last.caller

(* C17: a _withLock call whose wait for the lock timed out has not run its
   callback, has waited once and has thrown or rejected; and the lock is held only
   by a call that is still between its waitLock and its finally block, never by one
   that has finished *)
LockTimeoutRunsNothingAndLockIsFreed ==
    \A p \in Procs :
        /\ proc[p].error = "timeout"
              => /\ proc[p].executed = 0
                 /\ proc[p].waits = 1
                 /\ proc[p].pc = "done" => proc[p].status \in {"thrown", "rejected"}
        /\ proc[p].waits <= 1
        /\ lock = p => proc[p].pc \in {"callback", "catch", "finally"}

(* C17 witness: one call has given up waiting and rejected while the other, whose
   callback threw, has finished as well, and the lock is free *)
TimedOutAndThrownBothFreed ==
    /\ lock = NoLock
    /\ \E p, q \in Procs :
          /\ proc[p].pc = "done" /\ proc[p].error = "timeout" /\ proc[p].status = "rejected"
          /\ proc[q].pc = "done" /\ proc[q].error = "callback" /\ proc[q].executed = 1

(* how often the question of row i stands in a list of questions *)
TimesIn(questions, i) == Cardinality({k \in DOMAIN questions : questions[k].id = i})

(* C18: in the graph a question row stands exactly once in the list of the form
   whose id is its form id and in no other list; a row whose form id no form has
   stands in no list, and the call fails only when a sheet has no rows, never over
   a question row; the versions of a form are the distinct versions of the
   questions in its list *)
GraphNestsEachQuestionOnce ==
    last.op \in {"getFormData", "generateJSON"}
    => /\ last.status = "exception" <=> PopulateThrows(workbook)
       /\ last.status = "ok"
            => /\ DOMAIN last.result = {workbook.forms[i].id : i \in DOMAIN workbook.forms}
               /\ \A f \in DOMAIN last.result, i \in DOMAIN workbook.questions :
                     TimesIn(last.result[f].questions, i)
                        = IF workbook.questions[i].formId = f THEN 1 ELSE 0
               /\ \A f \in DOMAIN last.result :
                     LET g == last.result[f]
                     IN  /\ {g.versions[k] : k \in DOMAIN g.versions}
                              = {g.questions[k].version : k \in DOMAIN g.questions}
                         /\ \A j, k \in DOMAIN g.versions :
                               j # k => g.versions[j] # g.versions[k]

(* C18 witness: a graph was built from a sheet where one question names a form
   that does not exist and another names one that does *)
UnmatchedQuestionDropped ==
    /\ last.op = "getFormData" /\ last.status = "ok"
    /\ \E i, j \in DOMAIN workbook.questions :
          /\ workbook.questions[i].formId \notin DOMAIN last.result
          /\ workbook.questions[j].formId \in DOMAIN last.result
          /\ TimesIn(last.result[workbook.questions[j].formId].questions, j) = 1

(* C21: authenticate returns the stored role of an email the user map holds, and
   the role "viewer" for an email the map does not hold *)
AuthenticateDefaultsToViewer ==
    (last.op = "authenticate" /\ last.status # "pending" /\ last.email # NoEmail)
        => /\ last.status = Ok
           /\ last.role = IF last.email \in DOMAIN users THEN users[last.email] ELSE "viewer"

(* C22: a successful update rewrites the row with the given id and nothing else:
   the row keeps its id and its creation stamp, takes the candidate's eight fields
   and is stamped as modified today by the caller's employee id; the other rows and
   the number of rows stay as they were *)
UpdateRewritesOnlyItsRow ==
    [][(last'.op = "update" /\ last'.status = "ok")
        => /\ emID # NoEmID
           /\ \E i \in DOMAIN sheet :
                 /\ sheet[i].id = last'.id
                 /\ sheet' = [sheet EXCEPT ![i] = Row(@.id, last'.cand, @.createdBy,
                                                      @.createdDate, emID, Today)]]_vars

(* C23: at most one processQueue loop is active and at most one enqueued function
   runs at any time, and a function starts only when every call enqueued before
   its own has completed *)
OneFunctionAtATimeInOrder ==
    /\ Cardinality({p \in Procs : proc[p].pc \in {"loop", "awaitFn"}}) <= 1
    /\ \A p \in Procs :
          proc[p].pc = "awaitFn" => \A q \in proc[p].after : proc[q].pc = "done"

(* C24: an enqueue call, the outer one of an execution or one made while a task
   of the queue is being processed, has resolved only if the function it submitted
   has run and returned, and the outer call is rejected only with the error of the
   task it submitted itself *)
EnqueueAnswersForItsOwnTask ==
    \A p \in Procs :
        /\ proc[p].innerStatus = "resolved" => proc[p].inner = "returned"
        /\ proc[p].pc = "done"
           => /\ proc[p].status = "resolved" => proc[p].task = "returned"
              /\ proc[p].status = "rejected" => proc[p].error = "own"
              /\ proc[p].task = "threw" => proc[p].status = "rejected"

Settled == {"returned", "threw", "missing"}

(* C25: a function left in a queue always has a loop about to take it, and every
   call that was pushed is in the end taken from the queue and run, or turned down
   for its name, whatever became of the calls before it *)
EveryPushedCallIsRun ==
    /\ [](\A p \in Procs : Len(proc[p].functionQueue) > 0 => proc[p].pc = "loop")
    /\ \A p \in Procs : (proc[p].task = "queued") ~> (proc[p].task \in Settled)
    /\ \A p \in Procs : (proc[p].inner = "queued") ~> (proc[p].inner \in Settled)

(* C25 witness: the function of a call is running although a call enqueued before
   it has ended in a throw, and in another execution an inner call has been run *)
RunsAfterEarlierThrow ==
    \E p, q \in Procs :
        /\ q \in proc[p].after
        /\ proc[p].pc = "awaitFn"
        /\ proc[q].pc = "done" /\ proc[q].task \in {"threw", "missing"}

(* C26: when the execution of updateForm has nothing left to run, the promise its
   caller awaits has settled: resolved if the row was written, rejected if not *)
UpdatePromiseSettles ==
    \A p \in Procs :
        (proc[p].op = "updateForm" /\ proc[p].pc = "done")
        => /\ proc[p].status \in {"resolved", "rejected"}
           /\ proc[p].status = "resolved" <=> proc[p].wrote

DataIds(tbl) == {tbl[k].id : k \in (HEADER_ROWS + 1)..Len(tbl)}

(* C27: the write of updateForm(id, ...) leaves the number of rows and every row of
   another id as they are, keeps the id and the name of the row of that id, and
   changes nothing at all when no row has that id *)
UpdateFormWritesOnlyItsRow ==
    [][\A p \in Procs :
         (proc[p].pc = "write" /\ proc'[p].pc = "done")
         => LET old == workbook.tblForms
                new == workbook'.tblForms
            IN  /\ Len(new) = Len(old)
                /\ \A k \in 1..Len(old) :
                     \/ new[k] = old[k]
                     \/ /\ k > HEADER_ROWS
                        /\ old[k].id = proc[p].id
                        /\ new[k].id = old[k].id
                        /\ new[k].name = old[k].name]_vars

(* C28: the delete step of removeForm(id) removes the one row of that id and no
   other, and a call that comes to it when no row has the id removes nothing *)
RemoveFormDeletesOnlyItsRow ==
    [][\A p \in Procs :
         (proc[p].op = "removeForm" /\ proc[p].pc = "locked" /\ proc'[p].pc = "done")
         => LET old == workbook.tblForms
                new == workbook'.tblForms
            IN  IF proc[p].id \in DataIds(old)
                THEN /\ Len(new) = Len(old) - 1
                     /\ \A k \in 1..Len(old) :
                          old[k].id # proc[p].id => \E j \in 1..Len(new) : new[j] = old[k]
                ELSE /\ new = old
                     /\ proc'[p].status = "rejected"]_vars

(* C29: a request with status false is sent only when archiveEducated is true; the
   field becomes true only in a click on Acknowledge, in an alert whose countdown
   is at 0; a call with status false before that answers false and sends nothing;
   a call with status true always sends its request *)
ArchiveOnlyAfterAcknowledge ==
    [][/\ (page'.sent # page.sent)
          => /\ \E r \in {1} \X BOOLEAN :
                  /\ page'.sent = Append(page.sent, r)
                  /\ r[2] = FALSE => page.archiveEducated
             /\ page'.returned = "true"
       /\ (page'.archiveEducated # page.archiveEducated)
          => /\ page'.archiveEducated
             /\ \E k \in 1..Len(page.container) :
                  /\ page.container[k].type = "Acknowledge"
                  /\ page.container[k].timer <= 0
                  /\ page.container[k].button = "acknowledge"
                  /\ page'.container = RemoveAt(page.container, k)
       /\ (page'.returned = "false")
          => /\ ~ page.archiveEducated
             /\ page'.sent = page.sent
       /\ (page'.returned = "true") => page'.sent # page.sent]_vars

(* C29 witness: a request to archive has been sent *)
ArchiveRequestSent ==
    \E k \in 1..Len(page.sent) : page.sent[k][2] = FALSE

(* C30: activeAlerts is the number of alerts shown, it is between 0 and 3, and an
   alert waits in the queue only while three are shown *)
ActiveAlertsCountsShown ==
    /\ page.activeAlerts = Len(page.container)
    /\ page.activeAlerts \in 0..MaxDisplayed
    /\ Len(page.alertQueue) > 0 => Len(page.container) = MaxDisplayed

====
